---- MODULE Spec2Model ----
(***************************************************************************)
(* trello2md: the export-boards pipeline (exportBoards and its helpers)    *)
(* and the pure helpers getList, getCards, getCardComments,                *)
(* printCardChecklist and printCardComment.                                *)
(*                                                                         *)
(* The Trello client is the environment: every fetch is a blocking call    *)
(* that either fails or returns a value drawn from a small set.            *)
(***************************************************************************)
EXTENDS Integers, Sequences, FiniteSets, TLC

VARIABLES
    pc,         \* position in exportBoards (or in the helper under study)
    outcome,    \* "running", "ok" (return nil), "error" (return err), "panic" (log.Panic)
    err,        \* the error returned, "" while there is none
    flags,      \* the five show-* toggles of the cli context
    listFilter, \* --list-filter
    boardIds,   \* --board-id, in command line order
    boards,     \* the slice getBoards builds and exportBoards ranges over
    bi,         \* index in boards of the board of the current iteration
    list,       \* the list getList selected: its index in API order, 0 if none
    cards,      \* the slice getCards returned for the current board
    ci,         \* index in cards of the card of the current iteration
    sub,        \* the sub-resource slice held between its fetch and its print loop
    trace,      \* the calls made so far: fetches issued and print calls, in order
    arg,        \* helper specifications: the input of the helper
    ret,        \* helper specifications: what the helper returned
    out         \* helper specifications: what was written to standard output

vars == <<pc, outcome, err, flags, listFilter, boardIds, boards, bi, list,
          cards, ci, sub, trace, arg, ret, out>>

(***************************************************************************)
(* Bounds of the model.                                                    *)
(***************************************************************************)
MaxCards == 2
MaxLists == 3
MaxActions == 3
MaxItems == 2
MaxText == 3

Min(S) == CHOOSE x \in S : \A y \in S : x <= y

SeqsUpTo(S, n) == UNION {[1..k -> S] : k \in 0..n}

(***************************************************************************)
(* Timestamps.  A timestamp string is modelled by what time.Parse reads    *)
(* from it: whether it is RFC3339 at all, and its date, hour and zone      *)
(* offset (in hours).  Two strings with different offsets can denote the   *)
(* same instant, and the later instant can carry the earlier local date.   *)
(***************************************************************************)
TS(v, d, h, o) == [valid |-> v, day |-> d, hour |-> h, off |-> o]

TsUtc == TS(TRUE, 5, 10, 0)      \* 2024-01-05T10:00:00Z
TsSame == TS(TRUE, 5, 12, 2)     \* 2024-01-05T12:00:00+02:00, the same instant
TsEast == TS(TRUE, 6, 1, 2)      \* 2024-01-06T01:00:00+02:00
TsWest == TS(TRUE, 5, 23, -2)    \* 2024-01-05T23:00:00-02:00, after TsEast
TsBad == TS(FALSE, 0, 0, 0)      \* not RFC3339

Dates == {TsUtc, TsSame, TsWest, TsBad}

\* time.Parse(time.RFC3339, s): the instant (hours, UTC) and the date in the
\* zone the string names, or an error.
ParseRFC3339(s) ==
    IF s.valid
    THEN [err |-> FALSE, inst |-> s.day * 24 + s.hour - s.off, day |-> s.day]
    ELSE [err |-> TRUE, inst |-> 0, day |-> 0]

\* Time.Before
Before(t, u) == t.inst < u.inst

\* Time.Format(dateFormat)
FormatDate(t) == t.day

(***************************************************************************)
(* sort.Slice(s, less) with less parsing the dates of both elements and    *)
(* panicking on a parse error.  less is called only when there are at      *)
(* least two elements, and then on every element.  The sort is not stable: *)
(* any permutation in which no later element is Before an earlier one may  *)
(* result.                                                                 *)
(***************************************************************************)
Permuted(s) ==
    LET n == Len(s)
        P == {f \in [1..n -> 1..n] : \A i, j \in 1..n : f[i] = f[j] => i = j}
    IN {[i \in 1..n |-> s[f[i]]] : f \in P}

IsSortedByDate(t) ==
    \A i, j \in 1..Len(t) :
        i < j => ~Before(ParseRFC3339(t[j].date), ParseRFC3339(t[i].date))

SortSliceByDate(s) ==
    IF Len(s) >= 2 /\ \E i \in 1..Len(s) : ParseRFC3339(s[i].date).err
    THEN [panic |-> TRUE, results |-> {}]
    ELSE [panic |-> FALSE,
          results |-> IF Len(s) < 2 THEN {s}
                      ELSE {t \in Permuted(s) : IsSortedByDate(t)}]

(***************************************************************************)
(* getList: the scan of board.Lists() for the list filter.  lists is the   *)
(* sequence of list names in API order; the list returned is named by its  *)
(* index, 0 when none is returned.                                         *)
(***************************************************************************)
NoMatchingList == "no matching list found"

getListLast(lists, filter) ==
    LET m == {i \in 1..Len(lists) : lists[i] = filter}
    IN IF m = {} THEN [idx |-> 0, err |-> NoMatchingList]
       ELSE [idx |-> CHOOSE i \in m : \A j \in m : j <= i, err |-> ""]

getListUnique(lists, filter) ==
    LET m == {i \in 1..Len(lists) : lists[i] = filter}
    IN IF Cardinality(m) # 1 THEN [idx |-> 0, err |-> NoMatchingList]
       ELSE [idx |-> Min(m), err |-> ""]

RECURSIVE scanLists(_, _, _)
scanLists(lists, filter, i) ==
    IF i > Len(lists) THEN [idx |-> 0, err |-> NoMatchingList]
    ELSE IF lists[i] = filter THEN [idx |-> i, err |-> ""]
    ELSE scanLists(lists, filter, i + 1)

getList(lists, filter) == scanLists(lists, filter, 1)

(***************************************************************************)
(* getCards: list.Cards() sorted by DateLastActivity.                      *)
(***************************************************************************)
\* without the sort (as the older main.go has it)
getCardsUnsorted(cs) == [panic |-> FALSE, results |-> {cs}]

getCards(cs) == SortSliceByDate(cs)

(***************************************************************************)
(* getCardComments: card.Actions() filtered to commentCard, then sorted    *)
(* by Date.                                                                *)
(***************************************************************************)
commentCardAction == "commentCard"

filterComments(actions) == SelectSeq(actions, LAMBDA a : a.type = commentCardAction)

\* without the sort (as the older main.go has it)
getCardCommentsUnsorted(actions) ==
    [panic |-> FALSE, results |-> {filterComments(actions)}]

getCardComments(actions) == SortSliceByDate(filterComments(actions))

(***************************************************************************)
(* printCardChecklist.  Standard output is a sequence of blocks, one per    *)
(* call of a print function: what the block is about (of) and the strings  *)
(* its Printf calls wrote, in order.                                       *)
(***************************************************************************)
IsCompleteAnyCase(state) == state \in {"complete", "Complete"}

\* checkItem.State == "complete"
IsComplete(state) == state = "complete"

printCardChecklist(cl) ==
    [of |-> cl.name,
     text |-> <<cl.name \o "\n">>
              \o [i \in 1..Len(cl.items) |->
                    IF IsComplete(cl.items[i].state)
                    THEN "- [x] " \o cl.items[i].name \o "\n"
                    ELSE "- [ ] " \o cl.items[i].name \o "\n"]
              \o <<"\n">>]

(***************************************************************************)
(* printCardComment.  A text is a sequence of characters; what is written  *)
(* is a sequence of pieces, the piece "\n" ending a line.                  *)
(***************************************************************************)
\* strings.Replace(s, "\n", "\n> ", n): the first n newlines (all of them
\* when n < 0) are rewritten
RECURSIVE Replace(_, _)
Replace(s, n) ==
    IF s = <<>> THEN <<>>
    ELSE IF Head(s) = "\n" /\ n # 0
         THEN <<"\n", "> ">> \o Replace(Tail(s), IF n < 0 THEN n ELSE n - 1)
         ELSE <<Head(s)>> \o Replace(Tail(s), n)

commentBodyFirstOnly(text) == <<"> ">> \o Replace(text, 1) \o <<"\n", "\n">>

\* fmt.Printf("> %s\n\n", strings.Replace(text, "\n", "\n> ", -1))
commentBody(text) == <<"> ">> \o Replace(text, 0 - 1) \o <<"\n", "\n">>

printCardComment(a) ==
    LET t == ParseRFC3339(a.date)
    IN IF t.err THEN [err |-> TRUE, of |-> a.id, text |-> <<>>]
       ELSE [err |-> FALSE, of |-> a.id,
             text |-> <<"> **", ToString(FormatDate(t)), "** - **", a.author, ":**", "\n">>
                      \o commentBody(a.text)]

(***************************************************************************)
(* exportBoards.  What the Trello client may answer in the pipeline.       *)
(***************************************************************************)
\* Value of the list-filter flag
DefaultListFilter == "Done"
Filters == {"Done", "done"}
ListNames == {"Done", "done", "Todo"}

\* --board-id: none, one board, two boards
BoardIdSeqs == {<<>>, <<1>>, <<1, 2>>}

PipeLists == {<<>>, <<"Todo", "done">>, <<"Todo", "Done">>, <<"Done", "Done">>}

PipeDates == {TsEast, TsWest, TsBad}

\* list.Cards(): the cards in API order, each with its DateLastActivity
PipeCards ==
    {[i \in 1..Len(ds) |-> [date |-> ds[i]]] : ds \in SeqsUpTo(PipeDates, MaxCards)}

\* an action of a card; id is its position in the API's answer
Action(i, ty, d, tx) ==
    [id |-> i, type |-> ty, date |-> d, author |-> "Ann", text |-> tx]

PipeActions ==
    { <<>>,
      <<Action(1, "commentCard", TsWest, <<>>), Action(2, "commentCard", TsEast, <<>>)>>,
      <<Action(1, "updateCard", TsBad, <<>>)>>,
      <<Action(1, "commentCard", TsBad, <<>>)>>,
      <<Action(1, "commentCard", TsUtc, <<>>), Action(2, "commentCard", TsBad, <<>>)>> }

PipeItems == {<<>>, <<"x">>}

\* a blocking call to the API: a transport/API error, or a value
Answers(S) == {[ok |-> FALSE, val |-> <<>>]} \cup {[ok |-> TRUE, val |-> v] : v \in S}

Flags == [lam : BOOLEAN, desc : BOOLEAN, att : BOOLEAN, chk : BOOLEAN, cmt : BOOLEAN]

\* One call: a fetch issued to the API (ok: whether it succeeded) or a call
\* of a print function (for attachments, checklists and comments: the loop
\* that prints one block per element held in sub, none when it is empty).
Ev(e, w, b, c, ok) == [ev |-> e, what |-> w, b |-> b, c |-> c, ok |-> ok]
Fetch(w, ok) == Ev("fetch", w, bi, ci, ok)
Wrote(w) == Ev("print", w, bi, ci, TRUE)

\* checklists before attachments
SectionOrderOld == <<"lam", "desc", "chk", "att", "cmt">>

\* The toggled sections of a card in the order exportBoards runs them.
SectionOrder == <<"lam", "desc", "att", "chk", "cmt">>

\* c.Bool("show-...")
ShowAlways(sec) == TRUE

Show(sec) == flags[sec]

\* Where control goes after section number k of the current card (0: the
\* title): the next enabled section, else the next card, else the next board.
NextStep(k) ==
    LET later == {i \in (k + 1)..Len(SectionOrder) : Show(SectionOrder[i])}
    IN IF later # {} THEN [pc |-> SectionOrder[Min(later)], ci |-> ci]
       ELSE IF ci < Len(cards) THEN [pc |-> "title", ci |-> ci + 1]
       ELSE [pc |-> "boardLoop", ci |-> ci]

SecNo(sec) == CHOOSE i \in 1..Len(SectionOrder) : SectionOrder[i] = sec

Goto(k) == pc' = NextStep(k).pc /\ ci' = NextStep(k).ci

\* `return err`: exportBoards unwinds, app.Run returns the error, main panics.
FailSkipBoard(kind) == pc' = "boardLoop" /\ outcome' = outcome /\ err' = kind

Fail(kind) == pc' = "done" /\ outcome' = "error" /\ err' = kind

\* log.Panic inside a sort's less function
Panic(kind) == pc' = "done" /\ outcome' = "panic" /\ err' = kind

Running == UNCHANGED <<outcome, err>>

Helper == <<arg, ret, out>>
Config == <<flags, listFilter, boardIds>>

NewAuthClient ==
    /\ pc = "newClient"
    /\ \E ok \in BOOLEAN :
          IF ok THEN pc' = "printDate" /\ Running ELSE Fail("auth")
    /\ UNCHANGED <<Config, boards, bi, list, cards, ci, sub, trace, Helper>>

PrintDate ==
    /\ pc = "printDate"
    /\ trace' = Append(trace, Wrote("date"))
    /\ pc' = "getBoards"
    /\ UNCHANGED <<outcome, err, Config, boards, bi, list, cards, ci, sub, Helper>>

\* getBoards: one client.Board call per board id, all before the first board
\* is printed.
BoardsFetchedFirst == Len(boards) >= 1 \/ Len(boardIds) = 0

BoardsFetched == Len(boards) = Len(boardIds)

FetchBoard ==
    /\ pc = "getBoards"
    /\ ~BoardsFetched
    /\ \E ok \in BOOLEAN :
          /\ trace' = Append(trace, Ev("fetch", "board", Len(boards) + 1, 0, ok))
          /\ IF ok
             THEN /\ boards' = Append(boards, boardIds[Len(boards) + 1])
                  /\ pc' = pc
                  /\ Running
             ELSE /\ boards' = boards
                  /\ Fail("fetch")
    /\ UNCHANGED <<Config, bi, list, cards, ci, sub, Helper>>

GetBoardsReturn ==
    /\ pc = "getBoards"
    /\ BoardsFetched
    /\ pc' = "boardLoop"
    /\ UNCHANGED <<outcome, err, Config, boards, bi, list, cards, ci, sub, trace, Helper>>

\* for _, board := range *boards { printBoard(board) ...
PrintBoard ==
    /\ pc = "boardLoop"
    /\ bi < Len(boards)
    /\ bi' = bi + 1
    /\ trace' = Append(trace, Ev("print", "board", bi + 1, 0, TRUE))
    /\ list' = 0 /\ cards' = <<>> /\ ci' = 0
    /\ pc' = "getList"
    /\ UNCHANGED <<outcome, err, Config, boards, sub, Helper>>

\* return nil
Finish ==
    /\ pc = "boardLoop"
    /\ bi >= Len(boards)
    /\ pc' = "done"
    /\ outcome' = "ok"
    /\ UNCHANGED <<err, Config, boards, bi, list, cards, ci, sub, trace, Helper>>

GetList ==
    /\ pc = "getList"
    /\ \E r \in Answers(PipeLists) :
          /\ trace' = Append(trace, Fetch("lists", r.ok))
          /\ IF ~r.ok THEN list' = list /\ Fail("fetch")
             ELSE IF getList(r.val, listFilter).err # ""
                  THEN list' = list /\ Fail(getList(r.val, listFilter).err)
             ELSE list' = getList(r.val, listFilter).idx /\ pc' = "getCards" /\ Running
    /\ UNCHANGED <<Config, boards, bi, cards, ci, sub, Helper>>

GetCards ==
    /\ pc = "getCards"
    /\ \E r \in Answers(PipeCards) :
          /\ trace' = Append(trace, Fetch("cards", r.ok))
          /\ IF ~r.ok THEN UNCHANGED <<cards, ci>> /\ Fail("fetch")
             ELSE IF getCards(r.val).panic
                  THEN UNCHANGED <<cards, ci>> /\ Panic("parse")
             ELSE \E t \in getCards(r.val).results :
                     /\ cards' = t
                     /\ IF Len(t) = 0 THEN ci' = 0 /\ pc' = "boardLoop"
                        ELSE ci' = 1 /\ pc' = "title"
                     /\ Running
    /\ UNCHANGED <<Config, boards, bi, list, sub, Helper>>

PrintCardTitle ==
    /\ pc = "title"
    /\ IF ParseRFC3339(cards[ci].date).err
       THEN UNCHANGED <<trace, ci>> /\ Fail("parse")
       ELSE trace' = Append(trace, Wrote("title")) /\ Goto(0) /\ Running
    /\ UNCHANGED <<Config, boards, bi, list, cards, sub, Helper>>

\* prints the label prefix, then fetches the members, then prints them
PrintCardLabelsAndMembers ==
    /\ pc = "lam"
    /\ \E ok \in BOOLEAN :
          IF ok
          THEN /\ trace' = trace \o <<Wrote("labels"), Fetch("members", TRUE), Wrote("members")>>
               /\ Goto(SecNo("lam")) /\ Running
          ELSE /\ trace' = trace \o <<Wrote("labels"), Fetch("members", FALSE)>>
               /\ ci' = ci /\ Fail("fetch")
    /\ UNCHANGED <<Config, boards, bi, list, cards, sub, Helper>>

PrintCardDescription ==
    /\ pc = "desc"
    /\ trace' = Append(trace, Wrote("desc"))
    /\ Goto(SecNo("desc")) /\ Running
    /\ UNCHANGED <<Config, boards, bi, list, cards, sub, Helper>>

\* the slice of a sub-resource goes out of scope at the end of its if block
Discard(s) == <<>>

GetCardAttachments ==
    /\ pc = "att"
    /\ \E r \in Answers(PipeItems) :
          /\ trace' = Append(trace, Fetch("attachments", r.ok))
          /\ IF ~r.ok THEN sub' = sub /\ Fail("fetch")
             ELSE sub' = r.val /\ pc' = "attPrint" /\ Running
    /\ UNCHANGED <<Config, boards, bi, list, cards, ci, Helper>>

PrintCardAttachments ==
    /\ pc = "attPrint"
    /\ trace' = Append(trace, Wrote("attachments"))
    /\ sub' = Discard(sub)
    /\ Goto(SecNo("att")) /\ Running
    /\ UNCHANGED <<Config, boards, bi, list, cards, Helper>>

GetCardCheckLists ==
    /\ pc = "chk"
    /\ \E r \in Answers(PipeItems) :
          /\ trace' = Append(trace, Fetch("checklists", r.ok))
          /\ IF ~r.ok THEN sub' = sub /\ Fail("fetch")
             ELSE sub' = r.val /\ pc' = "chkPrint" /\ Running
    /\ UNCHANGED <<Config, boards, bi, list, cards, ci, Helper>>

PrintCardChecklists ==
    /\ pc = "chkPrint"
    /\ trace' = Append(trace, Wrote("checklists"))
    /\ sub' = Discard(sub)
    /\ Goto(SecNo("chk")) /\ Running
    /\ UNCHANGED <<Config, boards, bi, list, cards, Helper>>

GetCardComments ==
    /\ pc = "cmt"
    /\ \E r \in Answers(PipeActions) :
          /\ trace' = Append(trace, Fetch("actions", r.ok))
          /\ IF ~r.ok THEN sub' = sub /\ Fail("fetch")
             ELSE IF getCardComments(r.val).panic THEN sub' = sub /\ Panic("parse")
             ELSE \E t \in getCardComments(r.val).results :
                     sub' = t /\ pc' = "cmtPrint" /\ Running
    /\ UNCHANGED <<Config, boards, bi, list, cards, ci, Helper>>

\* the loop over the comments; printCardComment fails on a date that does
\* not parse, after the comments before it were printed
PrintCardComments ==
    /\ pc = "cmtPrint"
    /\ LET bad == {i \in 1..Len(sub) : ParseRFC3339(sub[i].date).err}
       IN IF bad # {}
          THEN /\ trace' = IF Min(bad) > 1 THEN Append(trace, Wrote("comments")) ELSE trace
               /\ UNCHANGED <<sub, ci>> /\ Fail("parse")
          ELSE /\ trace' = Append(trace, Wrote("comments"))
               /\ sub' = Discard(sub)
               /\ Goto(SecNo("cmt")) /\ Running
    /\ UNCHANGED <<Config, boards, bi, list, cards, Helper>>

HelperIdle == arg = <<>> /\ ret = <<>> /\ out = <<>>

Init ==
    /\ pc = "newClient" /\ outcome = "running" /\ err = ""
    /\ flags \in Flags
    /\ listFilter = DefaultListFilter
    /\ boardIds \in BoardIdSeqs
    /\ boards = <<>> /\ bi = 0 /\ list = 0 /\ cards = <<>> /\ ci = 0
    /\ sub = <<>> /\ trace = <<>>
    /\ HelperIdle

Next ==
    \/ NewAuthClient
    \/ PrintDate
    \/ FetchBoard
    \/ GetBoardsReturn
    \/ PrintBoard
    \/ Finish
    \/ GetList
    \/ GetCards
    \/ PrintCardTitle
    \/ PrintCardLabelsAndMembers
    \/ PrintCardDescription
    \/ GetCardAttachments
    \/ PrintCardAttachments
    \/ GetCardCheckLists
    \/ PrintCardChecklists
    \/ GetCardComments
    \/ PrintCardComments

Spec == Init /\ [][Next]_vars

(***************************************************************************)
(* The helpers on their own: each is called once on an input drawn from a  *)
(* bounded set.  exportBoards is idle.                                     *)
(***************************************************************************)
PipeRest == <<flags, listFilter, boardIds, boards, bi, list, cards, ci, sub, trace>>

PipeIdle ==
    /\ flags = [lam |-> FALSE, desc |-> FALSE, att |-> FALSE, chk |-> FALSE, cmt |-> FALSE]
    /\ listFilter = DefaultListFilter
    /\ boardIds = <<>> /\ boards = <<>> /\ bi = 0 /\ list = 0
    /\ cards = <<>> /\ ci = 0 /\ sub = <<>> /\ trace = <<>>

HelperInit ==
    /\ pc = "call" /\ outcome = "running" /\ err = ""
    /\ ret = <<>> /\ out = <<>>
    /\ PipeIdle

\* ---- getList ----
InitList ==
    /\ HelperInit
    /\ arg \in [ok : BOOLEAN, lists : SeqsUpTo(ListNames, MaxLists), filter : Filters]

CallGetList ==
    /\ pc = "call"
    /\ ret' = IF arg.ok THEN getList(arg.lists, arg.filter)
              ELSE [idx |-> 0, err |-> "fetch"]
    /\ pc' = "done"
    /\ outcome' = IF ret'.err = "" THEN "ok" ELSE "error"
    /\ err' = ret'.err
    /\ UNCHANGED <<arg, out, PipeRest>>

NextList == CallGetList

SpecList == InitList /\ [][NextList]_vars

\* ---- printCardChecklist ----
ItemStates == {"complete", "incomplete", "", "Complete"}
CheckItems == [name : {"Test", "Deploy"}, state : ItemStates]

InitChecklist ==
    /\ HelperInit
    /\ arg \in [name : {"QA"}, items : SeqsUpTo(CheckItems, MaxItems)]

CallPrintCardChecklist ==
    /\ pc = "call"
    /\ out' = Append(out, printCardChecklist(arg))
    /\ pc' = "done"
    /\ outcome' = "ok"
    /\ UNCHANGED <<err, arg, ret, PipeRest>>

NextChecklist == CallPrintCardChecklist

SpecChecklist == InitChecklist /\ [][NextChecklist]_vars

\* ---- printCardComment ----
Chars == {"a", "b", "\n"}

InitComment ==
    /\ HelperInit
    /\ \E d \in {TsUtc, TsBad}, tx \in SeqsUpTo(Chars, MaxText) :
          arg = Action(1, commentCardAction, d, tx)

CallPrintCardComment ==
    /\ pc = "call"
    /\ IF printCardComment(arg).err
       THEN out' = out /\ outcome' = "error" /\ err' = "parse"
       ELSE /\ out' = Append(out, [of |-> printCardComment(arg).of,
                                   text |-> printCardComment(arg).text])
            /\ outcome' = "ok" /\ err' = err
    /\ pc' = "done"
    /\ UNCHANGED <<arg, ret, PipeRest>>

NextComment == CallPrintCardComment

SpecComment == InitComment /\ [][NextComment]_vars

\* ---- getCardComments and the loop that prints what it returned ----
ActionTypes == {commentCardAction, "updateCard"}

InitComments ==
    /\ HelperInit
    /\ \E s \in SeqsUpTo(ActionTypes \X Dates, MaxActions) :
          arg = [i \in 1..Len(s) |-> Action(i, s[i][1], s[i][2], <<>>)]

CallGetCardComments ==
    /\ pc = "call"
    /\ IF getCardComments(arg).panic
       THEN ret' = ret /\ pc' = "done" /\ outcome' = "panic" /\ err' = "parse"
       ELSE /\ ret' \in getCardComments(arg).results
            /\ pc' = "print" /\ UNCHANGED <<outcome, err>>
    /\ UNCHANGED <<arg, out, PipeRest>>

PrintNextComment ==
    /\ pc = "print"
    /\ ret # <<>>
    /\ IF printCardComment(Head(ret)).err
       THEN UNCHANGED <<ret, out>> /\ pc' = "done" /\ outcome' = "error" /\ err' = "parse"
       ELSE /\ out' = Append(out, [of |-> printCardComment(Head(ret)).of,
                                   text |-> printCardComment(Head(ret)).text])
            /\ ret' = Tail(ret)
            /\ UNCHANGED <<pc, outcome, err>>
    /\ UNCHANGED <<arg, PipeRest>>

CommentsPrinted ==
    /\ pc = "print"
    /\ ret = <<>>
    /\ pc' = "done" /\ outcome' = "ok"
    /\ UNCHANGED <<err, arg, ret, out, PipeRest>>

NextComments == CallGetCardComments \/ PrintNextComment \/ CommentsPrinted

SpecComments == InitComments /\ [][NextComments]_vars

(***************************************************************************)
(* Properties of exportBoards.                                             *)
(***************************************************************************)
Idx == 1..Len(trace)

IsFetch(e, w) == e.ev = "fetch" /\ e.what = w
IsPrint(e, w) == e.ev = "print" /\ e.what = w
IsTitle(e) == IsPrint(e, "title")

IsPrefix(s, t) == Len(s) <= Len(t) /\ \A i \in 1..Len(s) : s[i] = t[i]

Call(e) == <<e.ev, e.what>>

\* the calls of card c of board b, in the order they were made
CardCalls(b, c) ==
    LET s == SelectSeq(trace, LAMBDA e : e.b = b /\ e.c = c)
    IN [i \in 1..Len(s) |-> Call(s[i])]

\* the calls on cards, in the order they were made
OnCards == SelectSeq(trace, LAMBDA e : e.c > 0)

CardsStarted == {<<e.b, e.c>> : e \in {OnCards[i] : i \in 1..Len(OnCards)}}

\* card (b, c) has been completed: the export returned nil or went on to a
\* later card or board
CardDone(b, c) ==
    \/ outcome = "ok"
    \/ \E p \in Idx : /\ trace[p].ev = "print"
                      /\ \/ trace[p].b > b
                         \/ trace[p].b = b /\ trace[p].c > c

InstantOf(c) == ParseRFC3339(cards[c].date).inst

\* the titles printed for the current board
TitlesOfBoard == SelectSeq(trace, LAMBDA e : IsTitle(e) /\ e.b = bi)

\* C3: the title blocks of a board are printed in ascending order of the
\* cards' last-activity instants, whatever order the API returned the cards in.
Thm_C3_TitlesAscending ==
    \A i, j \in 1..Len(TitlesOfBoard) :
        i < j => /\ TitlesOfBoard[i].c < TitlesOfBoard[j].c
                 /\ InstantOf(TitlesOfBoard[i].c) <= InstantOf(TitlesOfBoard[j].c)

\* two titles were printed, the earlier instant first although its date in
\* its own zone is the later one
Wit_C3 ==
    /\ Len(cards) = 2 /\ Len(TitlesOfBoard) = 2
    /\ InstantOf(1) < InstantOf(2)
    /\ FormatDate(ParseRFC3339(cards[1].date)) > FormatDate(ParseRFC3339(cards[2].date))

\* what exportBoards is to call for one card under the toggles
ExpectedCalls ==
    <<Call(Wrote("title"))>>
    \o (IF flags.lam
        THEN <<Call(Wrote("labels")), Call(Fetch("members", TRUE)), Call(Wrote("members"))>>
        ELSE <<>>)
    \o (IF flags.desc THEN <<Call(Wrote("desc"))>> ELSE <<>>)
    \o (IF flags.att
        THEN <<Call(Fetch("attachments", TRUE)), Call(Wrote("attachments"))>> ELSE <<>>)
    \o (IF flags.chk
        THEN <<Call(Fetch("checklists", TRUE)), Call(Wrote("checklists"))>> ELSE <<>>)
    \o (IF flags.cmt
        THEN <<Call(Fetch("actions", TRUE)), Call(Wrote("comments"))>> ELSE <<>>)

\* C5: the calls of a card are the title and then the sections whose toggle
\* is enabled, in the fixed sequence labels and members, description,
\* attachments, checklists, comments: all of them once the card is completed,
\* a prefix of them before; the cards of the export do not interleave; with
\* every toggle false the title is all there is.
Thm_C5_SectionSequence ==
    /\ \A bc \in CardsStarted :
          /\ IsPrefix(CardCalls(bc[1], bc[2]), ExpectedCalls)
          /\ CardDone(bc[1], bc[2]) => CardCalls(bc[1], bc[2]) = ExpectedCalls
    /\ \A i \in 1..(Len(OnCards) - 1) :
          \/ OnCards[i].b < OnCards[i + 1].b
          \/ OnCards[i].b = OnCards[i + 1].b /\ OnCards[i].c <= OnCards[i + 1].c
    /\ (\A sec \in DOMAIN flags : ~flags[sec])
          => \A i \in 1..Len(OnCards) : IsTitle(OnCards[i])

\* a second card completed with comments, checklists and attachments enabled
\* and the two other sections disabled
Wit_C5 ==
    /\ flags.att /\ flags.chk /\ ~flags.desc /\ flags.cmt /\ ~flags.lam
    /\ \E bc \in CardsStarted : bc[2] = 2 /\ CardDone(bc[1], bc[2])

\* the fetch a section issues
SectionFetch(sec) ==
    CASE sec = "lam" -> "members"
      [] sec = "att" -> "attachments"
      [] sec = "chk" -> "checklists"
      [] sec = "cmt" -> "actions"
      [] OTHER -> "none"

\* C10: a sub-resource is fetched only when its toggle is enabled, so a
\* disabled sub-resource can neither fail nor abort the export.
Thm_C10_FetchOnlyWhenEnabled ==
    \A p \in Idx : \A sec \in DOMAIN flags :
        IsFetch(trace[p], SectionFetch(sec)) => flags[sec]

\* comments and members disabled, attachments enabled, the export succeeded
Wit_C10 ==
    /\ ~flags.cmt /\ ~flags.lam /\ flags.att /\ ~flags.chk
    /\ outcome = "ok"
    /\ \E p \in Idx : IsFetch(trace[p], "attachments")

Failed == outcome \in {"error", "panic"}

Fetches == SelectSeq(trace, LAMBDA e : e.ev = "fetch")

\* C6: the first failure ends the export.  A failed fetch is the last call
\* ever made, no fetch is issued twice, an error is never swallowed, and after
\* a failure nothing changes any more (what was printed stays).
Thm_C6_FailureAborts ==
    /\ [](/\ \A p \in Idx : (trace[p].ev = "fetch" /\ ~trace[p].ok)
                               => p = Len(trace) /\ outcome = "error" /\ err = "fetch"
          /\ Cardinality({<<Fetches[i].what, Fetches[i].b, Fetches[i].c>> :
                             i \in 1..Len(Fetches)}) = Len(Fetches)
          /\ err # "" => Failed
          /\ Failed => pc = "done" /\ err # ""
          /\ outcome = "ok" => err = "")
    /\ [][Failed => UNCHANGED vars]_vars

\* the fetch of a card's actions failed after the title was printed
Wit_C6 ==
    /\ outcome = "error" /\ err = "fetch"
    /\ Len(trace) > 0 /\ IsFetch(trace[Len(trace)], "actions")
    /\ \E p \in Idx : IsTitle(trace[p])

\* the calls after getBoards: everything but the board fetches
AfterGetBoards == SelectSeq(trace, LAMBDA e : ~IsFetch(e, "board"))

\* C7 as stated: whatever is printed for board i (its header, its cards) is
\* printed before board i+1 is fetched.
Orig_C7_BoardPrintedBeforeNextFetched ==
    \A p \in Idx :
        IsFetch(trace[p], "board") =>
            \A q \in Idx :
                (trace[q].ev = "print" /\ trace[q].b >= 1
                    /\ trace[q].b = trace[p].b - 1) => q < p

\* C7, amended: every board is fetched before anything but the date header is
\* printed; after that the calls of board i (header, lists, cards, the cards'
\* sections) all precede those of board i+1; a sub-resource is printed and
\* discarded before the next fetch; on success every board has its header, in
\* the order of the board ids.
Thm_C7_BoardsFetchedFirstThenInOrder ==
    /\ \A p \in Idx :
          IsFetch(trace[p], "board") =>
              \A q \in 1..p : trace[q].ev = "print" => trace[q].what = "date"
    /\ \A i \in 1..(Len(AfterGetBoards) - 1) :
          AfterGetBoards[i].b <= AfterGetBoards[i + 1].b
    /\ pc \in {"getList", "getCards", "lam", "att", "chk", "cmt"} => sub = <<>>
    /\ outcome = "ok" =>
          SelectSeq(trace, LAMBDA e : IsPrint(e, "board"))
             = [i \in 1..Len(boardIds) |-> Ev("print", "board", i, 0, TRUE)]

\* two boards exported, each with a card
Wit_C7 ==
    /\ outcome = "ok" /\ Len(boardIds) = 2
    /\ \E p, q \in Idx : /\ IsTitle(trace[p]) /\ trace[p].b = 1
                         /\ IsTitle(trace[q]) /\ trace[q].b = 2

(***************************************************************************)
(* Properties of the helpers.                                              *)
(***************************************************************************)
Matching == {i \in 1..Len(arg.lists) : arg.lists[i] = arg.filter}

\* C1: getList returns the first list, in API order, whose name is exactly
\* the filter, without an error also when several lists carry that name; when
\* none does it returns no list and the error "no matching list found".
Thm_C1_FirstMatch ==
    (pc = "done" /\ arg.ok) =>
        IF Matching = {}
        THEN ret.idx = 0 /\ ret.err = NoMatchingList /\ outcome = "error"
        ELSE /\ ret.err = "" /\ outcome = "ok"
             /\ ret.idx \in Matching
             /\ \A i \in 1..(ret.idx - 1) : arg.lists[i] # arg.filter

\* the second and third list carry the filter's name, the first differs in case
Wit_C1 ==
    /\ pc = "done" /\ arg.ok
    /\ arg.filter = "Done" /\ arg.lists = <<"done", "Done", "Done">>
    /\ ret.idx = 2

\* C2 as stated: resolution succeeds only when exactly one list matches.
Orig_C2_ExactlyOne ==
    (pc = "done" /\ arg.ok) => (ret.err = "" <=> Cardinality(Matching) = 1)

\* C2, amended: resolution fails exactly when no list matches (or the lists
\* cannot be fetched), and then names no list; with one match or more it
\* succeeds.
Thm_C2_FailsIffNoMatch ==
    pc = "done" =>
        /\ ret.err # "" <=> (~arg.ok \/ Cardinality(Matching) = 0)
        /\ ret.err # "" => ret.idx = 0 /\ outcome = "error"
        /\ (arg.ok /\ Cardinality(Matching) > 1) => ret.err = "" /\ ret.idx > 0

\* three lists with the filter's name, and resolution succeeded
Wit_C2 ==
    /\ pc = "done" /\ arg.ok /\ Cardinality(Matching) = 3 /\ ret.err = ""

\* C8: a check item is rendered "- [x] name" exactly when its state is the
\* string "complete", and "- [ ] name" for every other state; the items follow
\* the checklist's name in checklist order, one line each, and one blank line
\* ends the block.
Thm_C8_ChecklistRendering ==
    pc = "done" =>
        /\ Len(out) = 1
        /\ LET t == out[1].text
               n == Len(arg.items)
           IN /\ Len(t) = n + 2
              /\ t[1] = arg.name \o "\n"
              /\ t[n + 2] = "\n"
              /\ \A i \in 1..n :
                    /\ t[i + 1] = "- [x] " \o arg.items[i].name \o "\n"
                          <=> arg.items[i].state = "complete"
                    /\ t[i + 1] = "- [ ] " \o arg.items[i].name \o "\n"
                          <=> arg.items[i].state # "complete"

\* "Complete" is rendered open, "complete" is rendered done
Wit_C8 ==
    /\ pc = "done"
    /\ arg.items = <<[name |-> "Test", state |-> "Complete"],
                     [name |-> "Deploy", state |-> "complete"]>>
    /\ out[1].text[2] = "- [ ] Test\n"
    /\ out[1].text[3] = "- [x] Deploy\n"

\* the lines of what was written: the pieces between line ends
RECURSIVE Lines(_, _)
Lines(s, cur) ==
    IF s = <<>> THEN (IF cur = <<>> THEN <<>> ELSE <<cur>>)
    ELSE IF Head(s) = "\n" THEN <<cur>> \o Lines(Tail(s), <<>>)
    ELSE Lines(Tail(s), Append(cur, Head(s)))

NewlinesIn(text) == Cardinality({i \in 1..Len(text) : text[i] = "\n"})

\* the text the quoted lines carry: each line without its prefix, the lines
\* joined by newlines again
RECURSIVE Unquote(_)
Unquote(ls) ==
    IF ls = <<>> THEN <<>>
    ELSE Tail(Head(ls)) \o (IF Len(ls) > 1 THEN <<"\n">> ELSE <<>>) \o Unquote(Tail(ls))

\* C9: the body of a comment is written as one quoted line per line of the
\* body: newlines + 1 of them, each starting with "> ", carrying the body's
\* text unchanged, after the header line and before one blank line.
Thm_C9_EveryLineQuoted ==
    (pc = "done" /\ outcome = "ok") =>
        /\ Len(out) = 1
        /\ LET ls == Lines(out[1].text, <<>>)
               n == NewlinesIn(arg.text) + 1
           IN /\ Len(ls) = n + 2
              /\ \A i \in 1..(n + 1) : ls[i] # <<>> /\ ls[i][1] \in {"> ", "> **"}
              /\ \A i \in 2..(n + 1) : ls[i][1] = "> "
              /\ ls[n + 2] = <<>>
              /\ Unquote(SubSeq(ls, 2, n + 1)) = arg.text
              /\ out[1].text[Len(out[1].text)] = "\n"

\* a body with two newlines, one after the other and the second one trailing
Wit_C9 ==
    /\ pc = "done" /\ outcome = "ok"
    /\ arg.text = <<"a", "\n", "\n">>
    /\ Lines(out[1].text, <<>>)[3] = <<"> ">>

CommentIds == {i \in 1..Len(arg) : arg[i].type = commentCardAction}

\* C4: the comment blocks printed are the card's commentCard actions and no
\* others, none twice, in ascending order of the actions' instants whatever
\* order the API returned them in; when the loop ends every one has been
\* printed.
Thm_C4_CommentsFilteredAscending ==
    /\ \A i \in 1..Len(out) : out[i].of \in CommentIds
    /\ \A i, j \in 1..Len(out) :
          i < j => /\ out[i].of # out[j].of
                   /\ ParseRFC3339(arg[out[i].of].date).inst
                         <= ParseRFC3339(arg[out[j].of].date).inst
    /\ outcome = "ok" => {out[i].of : i \in 1..Len(out)} = CommentIds

\* the API returned the later comment first with another action in between
Wit_C4 ==
    /\ outcome = "ok" /\ Len(arg) = 3
    /\ arg[1].type = commentCardAction /\ arg[1].date = TsWest
    /\ arg[2].type = "updateCard"
    /\ arg[3].type = commentCardAction /\ arg[3].date = TsUtc
    /\ Len(out) = 2 /\ out[1].of = 3 /\ out[2].of = 1

====
